---- MODULE Spec2Model ----
(***************************************************************************)
(* Federated-learning simulation (laraorlandic/optML_project).            *)
(*                                                                         *)
(*   Spec       the script src/experiments_int8.py as written: it loads    *)
(*              the data and stops at line 31 (TypeError)                  *)
(*   SpecRound  the round loop of the script (lines 56-124) from the       *)
(*              values of lines 37-54 and drawn clients; it stops at line  *)
(*              117 (AttributeError)                                       *)
(*   SpecLater  the round loop entered at line 56 in its first round or,   *)
(*              on drawn values, in a later one (broadcast of lines 60-82, *)
(*              exit of the loop)                                          *)
(*   SpecAgg    average_client_models of src/training.py on drawn inputs   *)
(*   SpecData   get_data_loaders of src/data_utils.py on drawn inputs      *)
(*   SpecNid    get_non_iid_datasets as called at line 59, on drawn states *)
(*              of get_data_loaders after its validation split             *)
(*                                                                         *)
(* Tensors are one-dimensional: [dtype, v] with v a sequence.  float32     *)
(* elements are exact rationals [n, d] (d > 0, lowest terms); int8         *)
(* elements are integers.  A state dict is a function from a set of        *)
(* parameter names to tensors; the dict of a model's named parameters, the *)
(* order of whose keys the aggregator follows, is a sequence of            *)
(* [key, t] items.                                                         *)
(*                                                                         *)
(* The script as written never enters its round loop: Client.__init__      *)
(* takes one argument and line 31 passes two.  The round loop is therefore *)
(* also followed on its own, from the values of lines 37-54 and drawn      *)
(* clients (a client holds a model state dict, train() leaves some trained *)
(* state dict).  In its first round line 117 hands state dicts to          *)
(* average_client_models, which reads .model of each and raises, so no run *)
(* from lines 37-54 reaches a second round.  The broadcast of lines 60-82  *)
(* and the exit of the loop are followed from the head of a second round:  *)
(* the values a first round leaves when lines 117-124 go through, with a   *)
(* drawn server model and a drawn accuracy.  What torch.save adds around   *)
(* the tensors of a file is decided by torch, not by the source: a bit     *)
(* count is kept as an expression over the sizes of the files saved.       *)
(* The int8 codec lives in src/weight_quantization.py and is               *)
(* taken from its description (scale 127 / max|value|, round to nearest,   *)
(* decode by dividing).  A random draw (random_split, random.shuffle)      *)
(* ranges over every order; the inputs of Spec and SpecData are chosen so  *)
(* that no draw is over more than MaxPermLen items.  SpecNid follows       *)
(* get_non_iid_datasets, which draws nothing, on longer inputs.            *)
(***************************************************************************)
EXTENDS Integers, Sequences, FiniteSets, TLC

VARIABLES
    \* ---- round loop (experiments_int8.py) ----
    pc,                       \* position in the script
    num_rounds,               \* line 38
    testing_accuracy,         \* line 37
    experiment_state,         \* lines 43-51
    multiplier,               \* line 54, reassigned at 68 and 98
    multipliers,              \* line 96
    quantized_clients_models, \* lines 95, 115
    new_client_models,        \* line 111
    clients,                  \* clients[c] is client c's model state dict
    central_server,           \* the central server's model state dict
    clients_bits,             \* line 92
    err,                      \* exception that ended the script, or "none"
    \* ---- aggregator inputs/outputs (training.py) ----
    agg_pc, agg_input, agg_result,
    \* ---- partitioner (data_utils.py) ----
    d_pc,                     \* position in get_data_loaders
    train_target,             \* labels of the loaded training collection
    num_clients, iid_split, percentage_val, non_iid_mix,   \* arguments
    train_dataset, val_dataset,
    iid_part, non_iid_part,   \* results of get_non_iid_split, line 51
    client_datasets,
    labels, sorted_indices,   \* line 198
    digit, client, first_idx, last_idx,   \* locals of get_non_iid_datasets
    d_err,                    \* exception raised, or "none"
    d_line                    \* line of data_utils.py it was raised from, or 0

loop_vars == <<pc, num_rounds, testing_accuracy, experiment_state, multiplier,
               multipliers, quantized_clients_models, new_client_models, clients,
               central_server, clients_bits, err>>
agg_vars == <<agg_pc, agg_input, agg_result>>
data_vars == <<d_pc, train_target, num_clients, iid_split, percentage_val,
               non_iid_mix, train_dataset, val_dataset, iid_part, non_iid_part,
               client_datasets, labels,
               sorted_indices, digit, client, first_idx, last_idx, d_err, d_line>>
vars == <<loop_vars, agg_vars, data_vars>>

(***************************************************************************)
(* Bounds of the model.                                                    *)
(***************************************************************************)
NumClients == 2      \* clients of the round loop
MaxModels == 3       \* models handed to the aggregator
MaxLen == 3          \* length of the short label sequences
MaxPermLen == 5      \* longest sequence a random draw is made over

(***************************************************************************)
(* Generic helpers.                                                        *)
(***************************************************************************)
Range(s) == {s[j] : j \in DOMAIN s}

Abs(x) == IF x < 0 THEN -x ELSE x

Min(a, b) == IF a < b THEN a ELSE b

Max(a, b) == IF a < b THEN b ELSE a

RECURSIVE GCD(_, _)
GCD(a, b) == IF b = 0 THEN a ELSE GCD(b, a % b)

\* the rational n/d (d # 0) in lowest terms with positive denominator
Rat(n, d) ==
    LET g == GCD(Abs(n), Abs(d))
        s == IF d < 0 THEN -1 ELSE 1
    IN  [n |-> (s * n) \div g, d |-> (s * d) \div g]

RatAbs(x) == [n |-> Abs(x.n), d |-> x.d]

RatLess(x, y) == x.n * y.d < y.n * x.d

RatAdd(x, y) == Rat(x.n * y.d + y.n * x.d, x.d * y.d)

\* n/d (d > 0) rounded to the nearest integer, ties to the even one
RoundHalfEven(n, d) ==
    LET f == n \div d
        r == n % d
    IN  IF 2 * r < d THEN f
        ELSE IF 2 * r > d THEN f + 1
        ELSE IF f % 2 = 0 THEN f ELSE f + 1

RECURSIVE SeqSum(_)
SeqSum(s) == IF s = <<>> THEN 0 ELSE Head(s) + SeqSum(Tail(s))

RECURSIVE RatSeqSum(_)
RatSeqSum(s) == IF s = <<>> THEN Rat(0, 1) ELSE RatAdd(Head(s), RatSeqSum(Tail(s)))

RECURSIVE RatSeqMax(_)
RatSeqMax(s) ==
    IF s = <<>> THEN Rat(0, 1)
    ELSE LET m == RatSeqMax(Tail(s))
         IN  IF RatLess(m, Head(s)) THEN Head(s) ELSE m

RECURSIVE SetToSeq(_)
SetToSeq(S) ==
    IF S = {} THEN <<>>
    ELSE LET x == CHOOSE y \in S : TRUE IN <<x>> \o SetToSeq(S \ {x})

\* a float32 tensor holding the given integers
FloatTensor(ints) ==
    [dtype |-> "float32", v |-> [j \in DOMAIN ints |-> Rat(ints[j], 1)]]

(***************************************************************************)
(* Bit Accountant.                                                         *)
(***************************************************************************)
DtypeBits(dtype) == IF dtype = "int8" THEN 8 ELSE 32

\* bytes the elements of every tensor of the state dict take in the file
\* torch.save writes
PayloadBytes(state_dict) ==
    SeqSum([j \in 1..Cardinality(DOMAIN state_dict) |->
        LET t == state_dict[SetToSeq(DOMAIN state_dict)[j]]
        IN  Len(t.v) * (DtypeBits(t.dtype) \div 8)])

\* what the container of the file depends on: the keys and, per key, the
\* element type and the shape of its tensor (never the values)
Structure(state_dict) ==
    [k \in DOMAIN state_dict |->
        [dtype |-> state_dict[k].dtype, shape |-> Len(state_dict[k].v)]]

\* lines 272-276: 8 times the size of the file torch.save writes.  The file
\* holds the elements of the tensors and a container (archive records,
\* pickled metadata) whose size torch decides from the structure of the
\* state dict; the count stands for 8 * (payload + container of structure)
get_model_bits(state_dict) ==
    [op |-> "file_bits", payload |-> PayloadBytes(state_dict),
     structure |-> Structure(state_dict)]

\* x * y and x - y on bit counts
Times(x, y) == [op |-> "times", x |-> x, y |-> y]

Minus(x, y) == [op |-> "minus", x |-> x, y |-> y]

Ok(x) == [ok |-> TRUE, val |-> x]

Raise(e) == [ok |-> FALSE, val |-> e]

RECURSIVE ReduceFrom(_, _)
ReduceFrom(acc, rest) ==
    IF rest = <<>> THEN acc ELSE ReduceFrom(Times(acc, Head(rest)), Tail(rest))

\* functools.reduce(lambda x, y: x * y, s), no initial value: the one
\* element of a list of one, TypeError on an empty list
reduce(s) ==
    IF s = <<>> THEN Raise("TypeError") ELSE Ok(ReduceFrom(Head(s), Tail(s)))

(***************************************************************************)
(* Quantization Codec, scheme B (affine 8-bit integer).                    *)
(***************************************************************************)
\* every element of every tensor of the mapping, as one sequence
RECURSIVE AllValues(_, _)
AllValues(state_dict, keys) ==
    IF keys = <<>> THEN <<>>
    ELSE state_dict[Head(keys)].v \o AllValues(state_dict, Tail(keys))

MaxAbs(state_dict) ==
    LET vs == AllValues(state_dict, SetToSeq(DOMAIN state_dict))
    IN  RatSeqMax([j \in DOMAIN vs |-> RatAbs(vs[j])])

\* the scale s = 127 / max|value|; a zero range is clamped to s = 127
Int8Scale(state_dict) ==
    LET m == MaxAbs(state_dict)
    IN  IF m.n = 0 THEN Rat(127, 1) ELSE Rat(127 * m.d, m.n)

\* encode: every element becomes round(value * s), stored in 8 bits;
\* returns the payload and the multiplier s
quantize_int8(state_dict) ==
    LET s == Int8Scale(state_dict)
    IN  [model |-> [k \in DOMAIN state_dict |->
                      [dtype |-> "int8",
                       v |-> [j \in DOMAIN state_dict[k].v |->
                                RoundHalfEven(state_dict[k].v[j].n * s.n,
                                              state_dict[k].v[j].d * s.d)]]],
         multiplier |-> s]

\* decode: value = encoded / s, back at full precision
decode_quantized_model_int8(model, s) ==
    [k \in DOMAIN model |->
        [dtype |-> "float32",
         v |-> [j \in DOMAIN model[k].v |-> Rat(model[k].v[j] * s.d, s.n)]]]

(***************************************************************************)
(* Aggregator.                                                             *)
(***************************************************************************)
\* a client as average_client_models reads it (line 77): an object whose
\* model has the given named parameters, in their order of registration
ClientObj(named_parameters) ==
    [kind |-> "Client", named_parameters |-> named_parameters]

\* a state dict where a client is expected (experiments_int8.py line 117)
StateDictObj(state_dict) == [kind |-> "OrderedDict", state_dict |-> state_dict]

\* dict.keys() in insertion order
DictKeys(d) == [j \in DOMAIN d |-> d[j].key]

\* key in d
HasKey(d, key) == \E j \in DOMAIN d : d[j].key = key

\* d[key]
Item(d, key) == d[CHOOSE j \in DOMAIN d : d[j].key = key].t

\* line 83 for one key: torch.cat of the unsqueezed tensors, sum(0), div(len)
AverageKey(dicts, key) ==
    IF \E j \in DOMAIN dicts : ~HasKey(dicts[j], key) THEN Raise("KeyError")
    ELSE IF \E j \in DOMAIN dicts : Len(Item(dicts[j], key).v) # Len(Item(dicts[1], key).v)
         THEN Raise("RuntimeError")
    ELSE Ok([dtype |-> "float32",
             v |-> [e \in DOMAIN Item(dicts[1], key).v |->
                      LET s == RatSeqSum([j \in DOMAIN dicts |-> Item(dicts[j], key).v[e]])
                      IN  Rat(s.n, s.d * Len(dicts))]])

\* lines 72-85: .model is read of every element (line 77); the keys are those
\* of the first mapping only, in its order (lines 79, 81), and the first of
\* them whose tensors cannot be combined raises
average_client_models(client_list) ==
    IF \E j \in DOMAIN client_list : client_list[j].kind # "Client"
    THEN Raise("AttributeError")
    ELSE IF client_list = <<>> THEN Raise("IndexError")
    ELSE LET dicts == [j \in DOMAIN client_list |-> client_list[j].named_parameters]
             dict_keys == DictKeys(dicts[1])
             bad == {j \in DOMAIN dict_keys : ~AverageKey(dicts, dict_keys[j]).ok}
         IN  IF bad # {}
             THEN AverageKey(dicts, dict_keys[CHOOSE j \in bad : \A i \in bad : j <= i])
             ELSE Ok([j \in DOMAIN dict_keys |->
                        [key |-> dict_keys[j], t |-> AverageKey(dicts, dict_keys[j]).val]])

(***************************************************************************)
(* Round loop of experiments_int8.py.                                      *)
(***************************************************************************)
target_accuracy == 90

\* state dicts a model can hold after construction or after local training
ModelChoices ==
    { [w |-> FloatTensor(<<1, -2>>), b |-> FloatTensor(<<1>>)],
      [w |-> FloatTensor(<<3, 1>>), b |-> FloatTensor(<<-1>>)],
      [w |-> FloatTensor(<<-4, 2>>), b |-> FloatTensor(<<3>>)] }

\* accuracies test() can have returned: below the target, and the target
AccuracyChoices == {50, target_accuracy}

ClientIds == 0..(NumClients - 1)

PyList(s) == [type |-> "list", val |-> s]

PyInt(n) == [type |-> "int", val |-> n]

\* list.append on a field of experiment_state
Append_(x, e) == PyList(Append(x.val, e))

\* line 92: the product of the bit counts of the clients' models
ClientsBits(cl) == reduce([j \in 1..NumClients |-> get_model_bits(cl[j - 1])])

\* line 103: the product of the bit counts of the quantized models
QuantizedBits(qs) == reduce([j \in DOMAIN qs |-> get_model_bits(qs[j])])

\* lines 104-108: the three client records are assigned, not appended to
AssignClientRecords(state, bits, quantized_bits) ==
    [state EXCEPT
       !.conserved_bits_from_clients = PyInt(Minus(bits, quantized_bits)),
       !.transferred_bits_from_clients = PyInt(quantized_bits),
       !.original_bits_from_clients = PyInt(bits)]

\* lines 43-51
InitialState ==
    [num_rounds |-> 0,
     test_accuracies |-> PyList(<<>>),
     conserved_bits_from_server |-> PyList(<<>>),
     conserved_bits_from_clients |-> PyList(<<>>),
     transferred_bits_from_server |-> PyList(<<>>),
     transferred_bits_from_clients |-> PyList(<<>>),
     original_bits_from_server |-> PyList(<<>>),
     original_bits_from_clients |-> PyList(<<>>)]

\* lines 37-54, with drawn clients and a drawn server model
LoopInit ==
    /\ pc = "while"
    /\ num_rounds = 0
    /\ testing_accuracy = 0
    /\ experiment_state = InitialState
    /\ multiplier = Rat(0, 1)
    /\ multipliers = <<>>
    /\ quantized_clients_models = <<>>
    /\ new_client_models = <<>>
    /\ clients \in [ClientIds -> ModelChoices]
    /\ central_server \in ModelChoices
    /\ clients_bits = 0
    /\ err = "none"

\* line 56 at the head of a second round: the values lines 92-115 of a
\* first round leave for the models its training left, lines 118-124 having
\* loaded some model on the server and recorded some accuracy
LoopLater ==
    /\ pc = "while"
    /\ num_rounds = 1
    /\ testing_accuracy \in AccuracyChoices
    /\ clients \in [ClientIds -> ModelChoices]
    /\ central_server \in ModelChoices
    /\ multipliers = [j \in 1..NumClients |-> quantize_int8(clients[j - 1]).multiplier]
    /\ multiplier = multipliers[NumClients]
    /\ new_client_models =
         [j \in 1..NumClients |->
            decode_quantized_model_int8(quantize_int8(clients[j - 1]).model,
                                        multipliers[j])]
    /\ quantized_clients_models = new_client_models
    /\ clients_bits = ClientsBits(clients).val
    /\ experiment_state =
         [AssignClientRecords(
              InitialState, clients_bits,
              QuantizedBits([j \in 1..NumClients |->
                               quantize_int8(clients[j - 1]).model]).val)
            EXCEPT !.test_accuracies = PyList(<<testing_accuracy>>),
                   !.num_rounds = 1]
    /\ err = "none"

LoopIdle ==
    /\ pc = "idle"
    /\ num_rounds = 0
    /\ testing_accuracy = 0
    /\ experiment_state = [num_rounds |-> 0]
    /\ multiplier = Rat(0, 1)
    /\ multipliers = <<>>
    /\ quantized_clients_models = <<>>
    /\ new_client_models = <<>>
    /\ clients = <<>>
    /\ central_server = <<>>
    /\ clients_bits = 0
    /\ err = "none"

\* line 60 for round r: a broadcast is made in every round but the first
BroadcastDueFromFirst(r) == r >= 1

BroadcastDue(r) == r > 1

\* lines 56-60: the loop test passes and a round begins
LoopEnter ==
    /\ pc = "while"
    /\ testing_accuracy < target_accuracy
    /\ num_rounds' = num_rounds + 1
    /\ pc' = IF BroadcastDue(num_rounds + 1) THEN "broadcast" ELSE "train"
    /\ UNCHANGED <<testing_accuracy, experiment_state, multiplier, multipliers,
                   quantized_clients_models, new_client_models, clients,
                   central_server, clients_bits, err>>

\* line 56: the loop test fails and the script goes on to line 126
LoopExit ==
    /\ pc = "while"
    /\ ~(testing_accuracy < target_accuracy)
    /\ pc' = "done"
    /\ UNCHANGED <<num_rounds, testing_accuracy, experiment_state, multiplier,
                   multipliers, quantized_clients_models, new_client_models,
                   clients, central_server, clients_bits, err>>

\* line 80: the multiplier the decode is given is the one line 68 has just
\* bound, of the encode q
BroadcastMultiplier(q) == q.multiplier

\* lines 62-82, one iteration.  Every iteration appends one entry to each
\* server record, so the client served is the one after those of this
\* round's entries
BroadcastClient ==
    /\ pc = "broadcast"
    /\ LET i == Len(experiment_state.conserved_bits_from_server.val) % NumClients
           float_model_bits == get_model_bits(central_server)
           q == quantize_int8(central_server)
           bits_transferred == get_model_bits(q.model)
           bits_conserved == Minus(float_model_bits, bits_transferred)
       IN  /\ multiplier' = q.multiplier
           /\ experiment_state' =
                [experiment_state EXCEPT
                   !.conserved_bits_from_server = Append_(@, bits_conserved),
                   !.transferred_bits_from_server = Append_(@, bits_transferred),
                   !.original_bits_from_server = Append_(@, float_model_bits)]
           /\ clients' =
                [clients EXCEPT
                   ![i] = decode_quantized_model_int8(q.model, BroadcastMultiplier(q))]
           /\ pc' = IF i + 1 < NumClients THEN "broadcast" ELSE "train"
    /\ UNCHANGED <<num_rounds, testing_accuracy, multipliers,
                   quantized_clients_models, new_client_models, central_server,
                   clients_bits, err>>

\* lines 85-88: every client's epochs of train() leave it some trained model
TrainClients ==
    /\ pc = "train"
    /\ clients' \in [ClientIds -> ModelChoices]
    /\ pc' = "measure"
    /\ UNCHANGED <<num_rounds, testing_accuracy, experiment_state, multiplier,
                   multipliers, quantized_clients_models, new_client_models,
                   central_server, clients_bits, err>>

\* lines 92, 95-96; reduce raises on no client
MeasureClients ==
    /\ pc = "measure"
    /\ LET bits == ClientsBits(clients)
       IN  IF bits.ok
           THEN /\ clients_bits' = bits.val
                /\ quantized_clients_models' = <<>>
                /\ multipliers' = <<>>
                /\ pc' = "quantize"
                /\ err' = err
           ELSE /\ pc' = "raised"
                /\ err' = bits.val
                /\ UNCHANGED <<clients_bits, quantized_clients_models, multipliers>>
    /\ UNCHANGED <<num_rounds, testing_accuracy, experiment_state, multiplier,
                   new_client_models, clients, central_server>>

\* lines 97-100, one iteration: the client quantized is the one after those
\* already in the two lists
QuantizeClient ==
    /\ pc = "quantize"
    /\ LET q == quantize_int8(clients[Len(multipliers)])
       IN  /\ multiplier' = q.multiplier
           /\ quantized_clients_models' = Append(quantized_clients_models, q.model)
           /\ multipliers' = Append(multipliers, q.multiplier)
    /\ pc' = IF Len(multipliers) + 1 < NumClients THEN "quantize" ELSE "account"
    /\ UNCHANGED <<num_rounds, testing_accuracy, experiment_state,
                   new_client_models, clients, central_server, clients_bits, err>>

\* lines 103-108, 111; reduce raises on no quantized model
AccountClients ==
    /\ pc = "account"
    /\ LET quantized_clients_bits == QuantizedBits(quantized_clients_models)
       IN  IF quantized_clients_bits.ok
           THEN /\ experiment_state' =
                     AssignClientRecords(experiment_state, clients_bits,
                                         quantized_clients_bits.val)
                /\ new_client_models' = <<>>
                /\ pc' = "decode"
                /\ err' = err
           ELSE /\ pc' = "raised"
                /\ err' = quantized_clients_bits.val
                /\ UNCHANGED <<experiment_state, new_client_models>>
    /\ UNCHANGED <<num_rounds, testing_accuracy, multiplier, multipliers,
                   quantized_clients_models, clients, central_server, clients_bits>>

\* line 112: the multiplier zip pairs with the payload at position j (0-based)
DecodeMultiplierShared(j) == multiplier

DecodeMultiplier(j) == multipliers[j + 1]

\* lines 112-114, one iteration: zip is at the position after the payloads
\* already decoded, and binds multiplier as well
DecodeClient ==
    /\ pc = "decode"
    /\ LET j == Len(new_client_models)
       IN  /\ multiplier' = DecodeMultiplier(j)
           /\ new_client_models' =
                 Append(new_client_models,
                        decode_quantized_model_int8(quantized_clients_models[j + 1],
                                                    DecodeMultiplier(j)))
           /\ pc' = IF j + 1 < Len(quantized_clients_models) THEN "decode" ELSE "average"
    /\ UNCHANGED <<num_rounds, testing_accuracy, experiment_state, multipliers,
                   quantized_clients_models, clients, central_server, clients_bits,
                   err>>

\* lines 115-117: the decoded state dicts are handed to average_client_models,
\* which raises on the first of them (or on the empty list); lines 118-124
\* are not reached
AverageModels ==
    /\ pc = "average"
    /\ quantized_clients_models' = new_client_models
    /\ LET averaged_model ==
               average_client_models([j \in DOMAIN new_client_models |->
                                        StateDictObj(new_client_models[j])])
       IN  /\ pc' = "raised"
           /\ err' = averaged_model.val
    /\ UNCHANGED <<num_rounds, testing_accuracy, experiment_state, multiplier,
                   multipliers, new_client_models, clients, central_server, clients_bits>>

(***************************************************************************)
(* Aggregator on drawn inputs.                                             *)
(***************************************************************************)
\* one named parameter
Param(key, ints) == [key |-> key, t |-> FloatTensor(ints)]

\* named parameters a client's model may have: different key sets, key
\* orders and per-key shapes among them
AggMappings ==
    { <<Param("w", <<1, 2>>)>>,
      <<Param("w", <<3, 5>>)>>,
      <<Param("w", <<1>>)>>,
      <<Param("b", <<2>>)>>,
      <<Param("w", <<1, 2>>), Param("b", <<4>>)>>,
      <<Param("b", <<4>>), Param("w", <<1, 2>>)>>,
      <<Param("w", <<2, 2>>), Param("b", <<1>>)>>,
      <<Param("b", <<1>>), Param("w", <<2, 2>>)>> }

AggClients == {ClientObj(m) : m \in AggMappings}

RECURSIVE SeqsUpTo(_, _)
SeqsUpTo(S, n) ==
    IF n = 0 THEN {<<>>}
    ELSE LET shorter == SeqsUpTo(S, n - 1)
         IN  shorter \cup {Append(q, x) : q \in {r \in shorter : Len(r) = n - 1}, x \in S}

AggInit ==
    /\ agg_pc = "call"
    /\ agg_input \in SeqsUpTo(AggClients, MaxModels)
    /\ agg_result = Raise("none")

AggIdle ==
    /\ agg_pc = "idle"
    /\ agg_input = <<>>
    /\ agg_result = Raise("none")

\* training.py lines 72-85 applied to the drawn models
AggCall ==
    /\ agg_pc = "call"
    /\ agg_result' = average_client_models(agg_input)
    /\ agg_pc' = IF average_client_models(agg_input).ok THEN "returned" ELSE "raised"
    /\ UNCHANGED agg_input

(***************************************************************************)
(* Partitioner (data_utils.py).  Indices are 0-based as in the source; a   *)
(* dataset is the TensorDataset of the loaded collection or a Subset       *)
(* [dataset, indices] of another dataset.                                  *)
(***************************************************************************)
NoneDs == [kind |-> "None"]

TensorDataset == [kind |-> "TensorDataset"]

Subset(dataset, indices) == [kind |-> "Subset", dataset |-> dataset, indices |-> indices]

\* array[i] of a Python sequence for 0 <= i < len
At(array, i) == array[i + 1]

\* len(dataset)
DsLen(ds) == IF ds.kind = "Subset" THEN Len(ds.indices) ELSE Len(train_target)

\* seq[a:b] with Python's treatment of negative and out-of-range bounds
PySlice(seq, a, b) ==
    LET n == Len(seq)
        lo == IF a < 0 THEN Max(a + n, 0) ELSE Min(a, n)
        hi == IF b < 0 THEN Max(b + n, 0) ELSE Min(b, n)
    IN  IF lo < hi THEN SubSeq(seq, lo + 1, hi) ELSE <<>>

\* the indices of a dataset resolved to positions of the loaded collection
RECURSIVE Resolve(_)
Resolve(ds) ==
    IF ds.kind = "TensorDataset" THEN [j \in 1..Len(train_target) |-> j - 1]
    ELSE LET parent == Resolve(ds.dataset)
         IN  [j \in DOMAIN ds.indices |-> At(parent, ds.indices[j])]

\* every order of the items of S
RECURSIVE AllOrders(_)
AllOrders(S) ==
    IF S = {} THEN {<<>>}
    ELSE UNION {{<<x>> \o rest : rest \in AllOrders(S \ {x})} : x \in S}

\* every order of 0..n-1, which a random permutation (torch.randperm in
\* random_split, random.shuffle) is drawn from
PermChoices(n) == AllOrders(0..(n - 1))

\* some orders of 0..n-1: as they come, reversed, rotated by one, and the odd
\* positions before the even ones
SampleOrders(n) ==
    LET id == [j \in 1..n |-> j - 1]
    IN  { id,
          [j \in 1..n |-> n - j],
          [j \in 1..n |-> j % n],
          SelectSeq(id, LAMBDA x : x % 2 = 1) \o SelectSeq(id, LAMBDA x : x % 2 = 0) }

\* DataLoader(dataset, shuffle): with shuffle=True a RandomSampler is built,
\* which rejects an empty dataset
DataLoader(dataset, shuffle) ==
    IF shuffle /\ DsLen(dataset) = 0 THEN Raise("ValueError")
    ELSE Ok(dataset)

\* torch.utils.data.random_split(dataset, lengths) drawing the permutation
\* perm: the lengths must add up to len(dataset); the subsets are
\* consecutive blocks of perm
random_split(dataset, lengths, perm) ==
    IF SeqSum(lengths) # DsLen(dataset) THEN Raise("ValueError")
    ELSE Ok([j \in DOMAIN lengths |->
               LET before == SeqSum(SubSeq(lengths, 1, j - 1))
               IN  Subset(dataset, SubSeq(perm, before + 1, before + lengths[j]))])

\* int(percentage_val * n) and int((1 - percentage_val) * n), lines 38-39;
\* percentage_val is the fraction pv[1] / pv[2]
ValLengths(pv, n) == <<(pv[1] * n) \div pv[2], ((pv[2] - pv[1]) * n) \div pv[2]>>

\* np.tile(int(len / num_clients), num_clients), lines 47-48
IidLengths(n, k) == [j \in 1..k |-> n \div k]

\* torch.sort of the labels (line 198): positions ordered by label, equal
\* labels in their original order
RECURSIVE SortedPositions(_, _)
SortedPositions(lbls, l) ==
    IF l > 9 THEN <<>>
    ELSE SelectSeq([j \in 1..Len(lbls) |-> j - 1], LAMBDA x : At(lbls, x) = l)
           \o SortedPositions(lbls, l + 1)

\* binary search for the first index of item in the sorted array
RECURSIVE first_index(_, _, _, _)
first_index(array, low, high, item) ==
    IF high >= low
    THEN LET mid == low + (high - low) \div 2
         IN  IF mid >= Len(array) THEN Raise("IndexError")
             ELSE IF (mid = 0 \/ item > At(array, mid - 1)) /\ At(array, mid) = item
                  THEN Ok(mid)
             ELSE IF item > At(array, mid)
                  THEN first_index(array, mid + 1, high, item)
             ELSE first_index(array, low, mid - 1, item)
    ELSE Ok(-1)

\* binary search for the last index of item in the sorted array
RECURSIVE last_index(_, _, _, _)
last_index(array, low, high, item) ==
    IF high >= low
    THEN LET mid == low + (high - low) \div 2
         IN  IF mid # Len(array) - 1 /\ mid + 1 >= Len(array) THEN Raise("IndexError")
             ELSE IF (mid = Len(array) - 1 \/ item < At(array, mid + 1))
                     /\ At(array, mid) = item
                  THEN Ok(mid)
             ELSE IF item < At(array, mid)
                  THEN last_index(array, low, mid - 1, item)
             ELSE last_index(array, mid + 1, high, item)
    ELSE Ok(-1)

\* the train_dataset argument of get_non_iid_datasets: non_iid_part in the
\* call of line 52, the training set in the call of line 59
nid_dataset == IF non_iid_mix[1] # 0 THEN non_iid_part ELSE train_dataset

\* line 199
digits_per_client == 10 \div num_clients

\* line 206: the last label of a client's range
UpperLabelOffByOne(d) == d + digits_per_client

UpperLabel(d) == d + (digits_per_client - 1)

\* lines 207-211: the shard holding the sorted positions first_idx..last_idx
ClientSubsetUnresolved(fi, li) ==
    IF nid_dataset.kind = "Subset"
    THEN Subset(nid_dataset.dataset, PySlice(sorted_indices, fi, li + 1))
    ELSE Subset(nid_dataset, PySlice(sorted_indices, fi, li + 1))

ClientSubset(fi, li) ==
    IF nid_dataset.kind = "Subset"
    THEN LET picked == PySlice(sorted_indices, fi, li + 1)
         IN  Subset(nid_dataset.dataset,
                    [j \in DOMAIN picked |-> At(nid_dataset.indices, picked[j])])
    ELSE Subset(nid_dataset, PySlice(sorted_indices, fi, li + 1))

\* labels the short collections are made of: the range boundaries of two
\* clients (0, 4, 5) and the largest label
ShortLabels == {0, 4, 5, 9}

\* collections in which every one of the ten labels occurs
FullCollections ==
    { <<0, 1, 2, 3, 4, 5, 6, 7, 8, 9>>,
      <<9, 8, 7, 6, 5, 4, 3, 2, 1, 0>>,
      <<5, 0, 6, 1, 7, 2, 8, 3, 9, 4, 0, 5>>,
      <<7, 7, 2, 9, 8, 7, 6, 5, 4, 3, 2, 1, 0, 4, 5>> }

ClientCounts == {1, 2, 3, 5, 10, 11}

\* percentage_val as numerator and denominator: 0, 0.2 (the default), 0.5
PercentChoices == {<<0, 1>>, <<1, 5>>, <<1, 2>>}

\* non_iid_mix as numerator and denominator: 0 (the default), 0.5
MixChoices == {<<0, 1>>, <<1, 2>>}

\* get_data_loaders entered: lines 31-33
DataStart ==
    /\ d_pc = "start"
    /\ train_dataset = TensorDataset
    /\ val_dataset = NoneDs
    /\ iid_part = NoneDs
    /\ non_iid_part = NoneDs
    /\ client_datasets = <<>>
    /\ labels = <<>>
    /\ sorted_indices = <<>>
    /\ digit = 0
    /\ client = 0
    /\ first_idx = 0
    /\ last_idx = 0
    /\ d_err = "none"
    /\ d_line = 0

\* collections of five samples in which the labels two clients search for
\* (0, 4 and 5) occur
MidCollections ==
    { <<0, 4, 5, 9, 0>>,
      <<5, 4, 0, 4, 9>> }

\* training collections load_data may return (line 32)
Collections == SeqsUpTo(ShortLabels, MaxLen) \cup MidCollections \cup FullCollections

\* get_data_loaders draws a permutation of the collection (lines 36, 47, 85)
RandomSplitDrawn == iid_split \/ percentage_val[1] # 0 \/ non_iid_mix[1] # 0

\* get_data_loaders called: a collection longer than MaxPermLen is
\* partitioned without a random split, and the shards shuffled at line 60
\* are MaxPermLen at most
DataInit ==
    /\ DataStart
    /\ train_target \in Collections
    /\ num_clients \in {k \in ClientCounts : k <= MaxPermLen}
    /\ iid_split \in BOOLEAN
    /\ percentage_val \in PercentChoices
    /\ non_iid_mix \in (IF iid_split THEN {<<0, 1>>} ELSE MixChoices)
    /\ RandomSplitDrawn => Len(train_target) <= MaxPermLen

\* states of get_data_loaders after line 43: no validation set, or the two
\* parts random_split made of the collection with one of the orders drawn
\* here, the validation loader built
SplitStates(pv) ==
    IF pv[1] = 0 THEN {<<NoneDs, TensorDataset>>}
    ELSE LET made == {random_split(TensorDataset, ValLengths(pv, Len(train_target)), perm) :
                        perm \in SampleOrders(Len(train_target))}
         IN  {<<r.val[1], r.val[2]>> :
                r \in {m \in made : m.ok /\ DataLoader(m.val[1], TRUE).ok}}

\* get_data_loaders at line 57, in non-IID mode without mix, for any of the
\* client counts
NidInit ==
    /\ d_pc = "split"
    /\ train_target \in Collections
    /\ num_clients \in ClientCounts
    /\ iid_split = FALSE
    /\ percentage_val \in PercentChoices
    /\ non_iid_mix = <<0, 1>>
    /\ \E parts \in SplitStates(percentage_val) :
         /\ val_dataset = parts[1]
         /\ train_dataset = parts[2]
    /\ iid_part = NoneDs
    /\ non_iid_part = NoneDs
    /\ client_datasets = <<>>
    /\ labels = <<>>
    /\ sorted_indices = <<>>
    /\ digit = 0
    /\ client = 0
    /\ first_idx = 0
    /\ last_idx = 0
    /\ d_err = "none"
    /\ d_line = 0

DataIdle ==
    /\ d_pc = "idle"
    /\ train_target = <<>>
    /\ num_clients = 0
    /\ iid_split = FALSE
    /\ percentage_val = <<0, 1>>
    /\ non_iid_mix = <<0, 1>>
    /\ train_dataset = TensorDataset
    /\ val_dataset = NoneDs
    /\ iid_part = NoneDs
    /\ non_iid_part = NoneDs
    /\ client_datasets = <<>>
    /\ labels = <<>>
    /\ sorted_indices = <<>>
    /\ digit = 0
    /\ client = 0
    /\ first_idx = 0
    /\ last_idx = 0
    /\ d_err = "none"
    /\ d_line = 0

data_args == <<train_target, num_clients, iid_split, percentage_val, non_iid_mix>>

nid_locals == <<labels, sorted_indices, digit, client, first_idx, last_idx>>

mix_parts == <<iid_part, non_iid_part>>

d_exc == <<d_err, d_line>>

\* get_data_loaders lines 31-43: the optional validation split and its loader
ValidationSplit ==
    /\ d_pc = "start"
    /\ IF percentage_val[1] # 0
       THEN \E perm \in PermChoices(Len(train_target)) :
              LET r == random_split(TensorDataset,
                                    ValLengths(percentage_val, Len(train_target)), perm)
              IN  IF ~r.ok
                  THEN /\ d_pc' = "raised"
                       /\ d_err' = r.val
                       /\ d_line' = 37
                       /\ UNCHANGED <<train_dataset, val_dataset>>
                  ELSE /\ val_dataset' = r.val[1]
                       /\ train_dataset' = r.val[2]
                       /\ IF DataLoader(r.val[1], TRUE).ok
                          THEN /\ d_pc' = "split"
                               /\ UNCHANGED d_exc
                          ELSE /\ d_pc' = "raised"
                               /\ d_err' = DataLoader(r.val[1], TRUE).val
                               /\ d_line' = 41
       ELSE /\ d_pc' = "split"
            /\ UNCHANGED <<train_dataset, val_dataset, d_exc>>
    /\ UNCHANGED <<data_args, mix_parts, client_datasets, nid_locals>>

\* get_data_loaders lines 45-48: the random IID split
PartitionIID ==
    /\ d_pc = "split"
    /\ iid_split
    /\ \E perm \in PermChoices(DsLen(train_dataset)) :
         LET r == random_split(train_dataset,
                               IidLengths(DsLen(train_dataset), num_clients), perm)
         IN  IF r.ok
             THEN /\ client_datasets' = r.val
                  /\ d_pc' = "partitioned"
                  /\ UNCHANGED d_exc
             ELSE /\ d_pc' = "raised"
                  /\ d_err' = r.val
                  /\ d_line' = 47
                  /\ UNCHANGED client_datasets
    /\ UNCHANGED <<data_args, train_dataset, val_dataset, mix_parts, nid_locals>>

\* get_data_loaders lines 49, 57-59 entering get_non_iid_datasets, lines 192-200
NonIIDStart ==
    /\ ~iid_split
    /\ \/ d_pc = "split" /\ non_iid_mix[1] = 0
       \/ d_pc = "mix_split"
    /\ LET lbls == IF nid_dataset.kind = "Subset"
                   THEN [j \in DOMAIN nid_dataset.indices |->
                           At(train_target, nid_dataset.indices[j])]
                   ELSE train_target
           order == SortedPositions(lbls, 0)
       IN  /\ sorted_indices' = order
           /\ labels' = [j \in DOMAIN order |-> At(lbls, order[j])]
    /\ client_datasets' = <<>>
    /\ digit' = 0
    /\ client' = 0
    /\ d_pc' = "client_loop"
    /\ UNCHANGED <<data_args, train_dataset, val_dataset, mix_parts, first_idx, last_idx, d_exc>>

\* get_non_iid_datasets lines 201-214: one iteration of the loop over
\* clients; the loop variable keeps its last value when the range is used up
NonIIDClient ==
    /\ d_pc = "client_loop"
    /\ LET f == first_index(labels, 0, Len(labels), digit)
           l == IF client = num_clients - 1
                THEN Ok(Len(labels) - 1)
                ELSE last_index(labels, 0, Len(labels), UpperLabel(digit))
       IN  IF ~f.ok \/ ~l.ok
           THEN /\ d_pc' = "raised"
                /\ d_err' = "IndexError"
                /\ d_line' = IF ~f.ok THEN 202 ELSE 206
                /\ first_idx' = IF f.ok THEN f.val ELSE first_idx
                /\ UNCHANGED <<client_datasets, digit, client, last_idx>>
           ELSE /\ first_idx' = f.val
                /\ last_idx' = l.val
                /\ client_datasets' = Append(client_datasets, ClientSubset(f.val, l.val))
                /\ digit' = digit + digits_per_client
                /\ client' = IF client + 1 < num_clients THEN client + 1 ELSE client
                /\ d_pc' = IF client + 1 < num_clients THEN "client_loop"
                           ELSE IF non_iid_mix[1] # 0 THEN "mixing"
                           ELSE "partitioned"
                /\ UNCHANGED d_exc
    /\ UNCHANGED <<data_args, train_dataset, val_dataset, mix_parts, labels, sorted_indices>>

\* round(non_iid_mix_p * n) and round((1 - non_iid_mix_p) * n), lines 85-87;
\* non_iid_mix_p is the fraction mx[1] / mx[2]
MixLengths(mx, n) ==
    <<RoundHalfEven(mx[1] * n, mx[2]), RoundHalfEven((mx[2] - mx[1]) * n, mx[2])>>

\* lines 88-90: a part split off a Subset is pointed at that Subset's own
\* dataset, its indices left as they are
Repoint(part) ==
    IF part.dataset.kind = "Subset"
    THEN Subset(part.dataset.dataset, part.indices)
    ELSE part

\* get_data_loaders lines 50-51 with get_non_iid_split, lines 85-91
MixSplit ==
    /\ d_pc = "split"
    /\ ~iid_split
    /\ non_iid_mix[1] # 0
    /\ \E perm \in PermChoices(DsLen(train_dataset)) :
         LET r == random_split(train_dataset,
                               MixLengths(non_iid_mix, DsLen(train_dataset)), perm)
         IN  IF r.ok
             THEN /\ iid_part' = Repoint(r.val[1])
                  /\ non_iid_part' = Repoint(r.val[2])
                  /\ d_pc' = "mix_split"
                  /\ UNCHANGED d_exc
             ELSE /\ d_pc' = "raised"
                  /\ d_err' = r.val
                  /\ d_line' = 85
                  /\ UNCHANGED mix_parts
    /\ UNCHANGED <<data_args, train_dataset, val_dataset, client_datasets, nid_locals>>

\* get_data_loaders lines 53-56: every shard is extended by its chunk of
\* iid_part's indices
MixClients ==
    /\ d_pc = "mixing"
    /\ LET chunk_size == Len(iid_part.indices) \div num_clients
       IN  client_datasets' =
             [j \in DOMAIN client_datasets |->
                Subset(client_datasets[j].dataset,
                       client_datasets[j].indices
                         \o PySlice(iid_part.indices, chunk_size * (j - 1), chunk_size * j))]
    /\ d_pc' = "partitioned"
    /\ UNCHANGED <<data_args, train_dataset, val_dataset, mix_parts, nid_locals, d_exc>>

\* get_data_loaders line 60: random.shuffle of the list of shards
ShuffleShards ==
    /\ d_pc = "partitioned"
    /\ \E perm \in PermChoices(Len(client_datasets)) :
         client_datasets' = [j \in DOMAIN client_datasets |-> At(client_datasets, perm[j])]
    /\ d_pc' = "shuffled"
    /\ UNCHANGED <<data_args, train_dataset, val_dataset, mix_parts, nid_locals, d_exc>>

\* get_data_loaders lines 61-71: one loader per shard, in the list's order;
\* the loop variable is the local train_dataset, which is left bound to the
\* shard it was given last
ReturnLoaders ==
    /\ d_pc = "shuffled"
    /\ LET refused == {j \in DOMAIN client_datasets :
                         ~DataLoader(client_datasets[j], TRUE).ok}
       IN  IF refused # {}
           THEN LET j == CHOOSE j \in refused : \A i \in refused : j <= i
                IN  /\ train_dataset' = client_datasets[j]
                    /\ d_pc' = "raised"
                    /\ d_err' = DataLoader(client_datasets[j], TRUE).val
                    /\ d_line' = 63
           ELSE /\ train_dataset' = IF client_datasets = <<>> THEN train_dataset
                                    ELSE client_datasets[Len(client_datasets)]
                /\ d_pc' = "done"
                /\ UNCHANGED d_exc
    /\ UNCHANGED <<data_args, val_dataset, mix_parts, client_datasets, nid_locals>>

(***************************************************************************)
(* The script experiments_int8.py, lines 15-35.                            *)
(***************************************************************************)
\* line 16
script_num_clients == 5

\* line 23: 5 * [1]
epochs_per_client == [j \in 1..5 |-> 1]

\* training.py lines 11-25: Client.__init__ takes the data loader and
\* nothing else
Client(args) ==
    IF Len(args) # 1 THEN Raise("TypeError") ELSE Ok([data_loader |-> args[1]])

\* the script before line 28
ScriptStart ==
    /\ pc = "load"
    /\ num_rounds = 0
    /\ testing_accuracy = 0
    /\ experiment_state = [num_rounds |-> 0]
    /\ multiplier = Rat(0, 1)
    /\ multipliers = <<>>
    /\ quantized_clients_models = <<>>
    /\ new_client_models = <<>>
    /\ clients = <<>>
    /\ central_server = <<>>
    /\ clients_bits = 0
    /\ err = "none"

\* collections the script's load_data returns: full is left False, so the
\* collection is narrowed to 5000 samples (data_utils.py lines 144-150), a
\* positive multiple of the script's number of clients; here one sample
\* per client
ScriptCollections == [1..script_num_clients -> {0, 9}]

\* line 28: get_data_loaders(batch_size, num_clients, percentage_val=0,
\* iid_split=iid_split) with iid_split = True (line 18)
ScriptDataInit ==
    /\ DataStart
    /\ train_target \in ScriptCollections
    /\ num_clients = script_num_clients
    /\ iid_split = TRUE
    /\ percentage_val = <<0, 1>>
    /\ non_iid_mix = <<0, 1>>

\* lines 31-35: every client is constructed from a loader and an epoch
\* count, which Client.__init__ rejects; with no loader at all clients[0]
\* (line 35) does not exist
ConstructClients ==
    /\ pc = "load"
    /\ d_pc = "done"
    /\ LET made == [j \in 1..Min(Len(client_datasets), Len(epochs_per_client)) |->
                      Client(<<client_datasets[j], epochs_per_client[j]>>)]
       IN  err' = IF made = <<>> THEN "IndexError" ELSE made[1].val
    /\ pc' = "raised"
    /\ UNCHANGED <<num_rounds, testing_accuracy, experiment_state, multiplier,
                   multipliers, quantized_clients_models, new_client_models,
                   clients, central_server, clients_bits>>

(***************************************************************************)
(* Specifications.                                                         *)
(***************************************************************************)
Init == ScriptStart /\ AggIdle /\ ScriptDataInit

Next ==
    \/ (ValidationSplit /\ UNCHANGED <<loop_vars, agg_vars>>)
    \/ (PartitionIID /\ UNCHANGED <<loop_vars, agg_vars>>)
    \/ (ShuffleShards /\ UNCHANGED <<loop_vars, agg_vars>>)
    \/ (ReturnLoaders /\ UNCHANGED <<loop_vars, agg_vars>>)
    \/ (ConstructClients /\ UNCHANGED <<agg_vars, data_vars>>)

Spec == Init /\ [][Next]_vars

InitRound == LoopInit /\ AggIdle /\ DataIdle

NextRound ==
    \/ (LoopEnter /\ UNCHANGED <<agg_vars, data_vars>>)
    \/ (TrainClients /\ UNCHANGED <<agg_vars, data_vars>>)
    \/ (MeasureClients /\ UNCHANGED <<agg_vars, data_vars>>)
    \/ (QuantizeClient /\ UNCHANGED <<agg_vars, data_vars>>)
    \/ (AccountClients /\ UNCHANGED <<agg_vars, data_vars>>)
    \/ (DecodeClient /\ UNCHANGED <<agg_vars, data_vars>>)
    \/ (AverageModels /\ UNCHANGED <<agg_vars, data_vars>>)

SpecRound == InitRound /\ [][NextRound]_vars

InitLater == (LoopInit \/ LoopLater) /\ AggIdle /\ DataIdle

NextLater ==
    \/ (LoopEnter /\ UNCHANGED <<agg_vars, data_vars>>)
    \/ (LoopExit /\ UNCHANGED <<agg_vars, data_vars>>)
    \/ (BroadcastClient /\ UNCHANGED <<agg_vars, data_vars>>)
    \/ (TrainClients /\ UNCHANGED <<agg_vars, data_vars>>)
    \/ (MeasureClients /\ UNCHANGED <<agg_vars, data_vars>>)
    \/ (QuantizeClient /\ UNCHANGED <<agg_vars, data_vars>>)
    \/ (AccountClients /\ UNCHANGED <<agg_vars, data_vars>>)
    \/ (DecodeClient /\ UNCHANGED <<agg_vars, data_vars>>)
    \/ (AverageModels /\ UNCHANGED <<agg_vars, data_vars>>)

SpecLater == InitLater /\ [][NextLater]_vars

InitAgg == LoopIdle /\ AggInit /\ DataIdle

NextAgg == AggCall /\ UNCHANGED <<loop_vars, data_vars>>

SpecAgg == InitAgg /\ [][NextAgg]_vars

InitData == LoopIdle /\ AggIdle /\ DataInit

NextData ==
    \/ (ValidationSplit /\ UNCHANGED <<loop_vars, agg_vars>>)
    \/ (PartitionIID /\ UNCHANGED <<loop_vars, agg_vars>>)
    \/ (MixSplit /\ UNCHANGED <<loop_vars, agg_vars>>)
    \/ (NonIIDStart /\ UNCHANGED <<loop_vars, agg_vars>>)
    \/ (NonIIDClient /\ UNCHANGED <<loop_vars, agg_vars>>)
    \/ (MixClients /\ UNCHANGED <<loop_vars, agg_vars>>)
    \/ (ShuffleShards /\ UNCHANGED <<loop_vars, agg_vars>>)
    \/ (ReturnLoaders /\ UNCHANGED <<loop_vars, agg_vars>>)

SpecData == InitData /\ [][NextData]_vars

InitNid == LoopIdle /\ AggIdle /\ NidInit

NextNid ==
    \/ (NonIIDStart /\ UNCHANGED <<loop_vars, agg_vars>>)
    \/ (NonIIDClient /\ UNCHANGED <<loop_vars, agg_vars>>)

SpecNid == InitNid /\ [][NextNid]_vars

(***************************************************************************)
(* Properties of the round loop (checked under SpecRound).                 *)
(***************************************************************************)
\* the round cycle has been left
LoopLeft == pc \in {"done", "raised"}

\* C1: the round loop always terminates: whatever accuracies the evaluator
\* returns, the loop leaves the round cycle and reaches DONE, because a
\* recorded accuracy reached the target or because a maximum round count is
\* reached.  A finite run refutes it in this form: whenever the round cycle
\* has been left, it was left to DONE with the target reached (the loop test
\* of line 56 knows no round count).
C1_LoopReachesDone ==
    LoopLeft => (pc = "done" /\ ~(testing_accuracy < target_accuracy))

ClientRecords ==
    {"conserved_bits_from_clients", "transferred_bits_from_clients",
     "original_bits_from_clients"}

ServerRecords ==
    {"conserved_bits_from_server", "transferred_bits_from_server",
     "original_bits_from_server"}

\* rounds among the first r in which a broadcast happens (every round but the first)
BroadcastRounds(r) == IF r > 1 THEN r - 1 ELSE 0

\* C2: Experiment State is append-only and grows by exactly one entry per
\* round: every record is a sequence at all times; after r completed rounds
\* test_accuracies has r entries and num_rounds = r, each client->server
\* record has r entries, and each server->client record has one entry per
\* round in which a broadcast happened, whatever the number of clients.
C2_OneEntryPerRound ==
    /\ \A f \in ClientRecords \cup ServerRecords \cup {"test_accuracies"} :
         experiment_state[f].type = "list"
    /\ pc = "while" =>
         /\ experiment_state.num_rounds = num_rounds
         /\ Len(experiment_state.test_accuracies.val) = num_rounds
         /\ \A f \in ClientRecords : Len(experiment_state[f].val) = num_rounds
         /\ \A f \in ServerRecords :
              Len(experiment_state[f].val) = BroadcastRounds(num_rounds)

(***************************************************************************)
(* Properties of the round loop entered in any round (SpecLater).          *)
(***************************************************************************)
\* decode(encode(C)): what a broadcast of the mapping C loads on a client
Snapshot(C) ==
    decode_quantized_model_int8(quantize_int8(C).model,
                                quantize_int8(C).multiplier)

\* clients the broadcast of the current round has served
Served ==
    IF pc = "broadcast"
    THEN Len(experiment_state.conserved_bits_from_server.val) % NumClients
    ELSE IF pc = "train" /\ num_rounds > 1 THEN NumClients ELSE 0

\* C8: broadcast ordering.  In round 1 no broadcast happens: the round goes
\* from the loop test to training with no client mapping overwritten and no
\* server->client record written.  In a round r > 1, when training starts
\* every client's mapping has been overwritten with decode(encode(C)), C
\* being the one server mapping the round began with (it does not change
\* during the broadcast), and the aggregation (line 92 on) starts only
\* from the training of all clients, whose models it leaves as trained.
C8_BroadcastOrdering ==
    /\ [](num_rounds <= 1 =>
            \A f \in ServerRecords : experiment_state[f].val = <<>>)
    /\ [][(num_rounds' = 1 /\ num_rounds = 0) =>
            pc' = "train" /\ clients' = clients]_vars
    /\ [](pc = "train" /\ num_rounds > 1 =>
            \A c \in ClientIds : clients[c] = Snapshot(central_server))
    /\ [][(pc \in {"while", "broadcast", "train"}) =>
            central_server' = central_server]_vars
    /\ [][(pc' = "measure") => (pc = "train")]_vars
    /\ [][(pc \in {"measure", "quantize", "account", "decode", "average"}) =>
            clients' = clients]_vars

\* C8 witness: training of a second round is about to start; the broadcast
\* has served every client, its encode returned another multiplier than
\* the one the round before left, and what the clients hold is not the
\* server's mapping itself
C8_Witness ==
    /\ pc = "train"
    /\ num_rounds = 2
    /\ Len(experiment_state.transferred_bits_from_server.val) = NumClients
    /\ \A c \in ClientIds : clients[c] = Snapshot(central_server)
    /\ clients[0] # central_server
    /\ multiplier # multipliers[NumClients]

\* C10: every decode in the round loop uses the multiplier its payload's
\* encode returned.  Broadcast: a client served holds the server's payload
\* decoded with the multiplier of the encode of the server's current
\* mapping, which is also what multiplier then holds, not the one an
\* earlier round left.  Aggregate: multipliers[i] is the scale of client
\* i's model of this round, and new_client_models[i] is client i's payload
\* decoded with that scale, never with another client's, although the
\* shared variable multiplier is reassigned for each client.
C10_DecodeUsesOwnMultiplier ==
    /\ \A c \in ClientIds :
          c < Served =>
             clients[c] =
                decode_quantized_model_int8(quantize_int8(central_server).model,
                                            quantize_int8(central_server).multiplier)
    /\ Served > 0 => multiplier = quantize_int8(central_server).multiplier
    /\ pc \in {"quantize", "account", "decode", "average"} =>
         \A j \in DOMAIN multipliers :
            /\ multipliers[j] = quantize_int8(clients[j - 1]).multiplier
            /\ quantized_clients_models[j] = quantize_int8(clients[j - 1]).model
    /\ pc \in {"decode", "average"} =>
         \A j \in DOMAIN new_client_models :
            new_client_models[j] =
               decode_quantized_model_int8(quantize_int8(clients[j - 1]).model,
                                           quantize_int8(clients[j - 1]).multiplier)

\* C10 witness: a second round whose broadcast has served every client and
\* whose client payloads have all been decoded; two clients' encodes
\* returned different multipliers, and the shared variable no longer holds
\* the first client's
C10_Witness ==
    /\ pc = "average"
    /\ num_rounds = 2
    /\ Len(experiment_state.transferred_bits_from_server.val) = NumClients
    /\ Len(new_client_models) = NumClients
    /\ multipliers[1] # multipliers[2]
    /\ multiplier # multipliers[1]

(***************************************************************************)
(* Properties of the aggregator (checked under SpecAgg).                   *)
(***************************************************************************)
KeySet(d) == Range(DictKeys(d))

\* compatible mappings: identical key sets and identical per-key shapes
Compatible(a, b) ==
    /\ KeySet(a) = KeySet(b)
    /\ \A k \in KeySet(a) : Len(Item(a, k).v) = Len(Item(b, k).v)

PairwiseCompatible(models) ==
    \A i, j \in DOMAIN models : Compatible(models[i], models[j])

\* C9: the aggregator fails when called with zero models and whenever the
\* input mappings are not pairwise compatible (an input with keys beyond
\* those of the first included); it never returns an averaged mapping then.
C9_RejectsIncompatible ==
    ( /\ agg_pc # "call"
      /\ \/ agg_input = <<>>
         \/ ~PairwiseCompatible([j \in DOMAIN agg_input |-> agg_input[j].named_parameters]) )
        => ~agg_result.ok

(***************************************************************************)
(* Properties of the partitioner (SpecData; C6 under SpecNid).             *)
(***************************************************************************)
\* positions of the loaded collection a dataset refers to
IndexSet(ds) == Range(Resolve(ds))

NoDuplicates(ds) == Cardinality(IndexSet(ds)) = Len(ds.indices)

LabelsAt(S) == {At(train_target, i) : i \in S}

LabelsOf(ds) == LabelsAt(IndexSet(ds))

PairwiseDisjoint(shards) ==
    \A i, j \in DOMAIN shards : i # j => IndexSet(shards[i]) \cap IndexSet(shards[j]) = {}

UnionOf(shards) == UNION {IndexSet(shards[j]) : j \in DOMAIN shards}

\* positions held out in the validation set
ValIndices == IF val_dataset.kind = "Subset" THEN IndexSet(val_dataset) ELSE {}

\* the non-validation portion of the training collection
TrainPortion == (0..(Len(train_target) - 1)) \ ValIndices

\* get_non_iid_datasets was called on train_dataset (no mix) and has ended
NonIIDEnded ==
    /\ ~iid_split
    /\ non_iid_mix[1] = 0
    /\ d_pc = "partitioned" \/ (d_pc = "raised" /\ d_err = "IndexError")

\* C3: non-IID partitioning without mix, for any client count and any labels
\* in 0..9, returns exactly k shards, pairwise disjoint, without duplicate
\* index, whose union is the input's index set.
C3_NonIIDIsPartition ==
    NonIIDEnded =>
        /\ d_pc = "partitioned"
        /\ Len(client_datasets) = num_clients
        /\ \A j \in DOMAIN client_datasets : NoDuplicates(client_datasets[j])
        /\ PairwiseDisjoint(client_datasets)
        /\ UnionOf(client_datasets) = IndexSet(train_dataset)

\* an iteration of the loop of get_non_iid_datasets has completed (digit has
\* moved on by digits_per_client since its searches)
IterationDone ==
    /\ ~iid_split
    /\ \/ d_pc = "client_loop" /\ client >= 1
       \/ d_pc \in {"mixing", "partitioned"}

\* the sentinel half of C4: a search for an absent label that returns, returns
\* -1 (last_index is not called for the last client)
C4_SentinelReturned ==
    IterationDone =>
        LET d == digit - digits_per_client
        IN  /\ d \notin Range(labels) => first_idx = -1
            /\ (d_pc = "client_loop" /\ UpperLabel(d) \notin Range(labels))
                 => last_idx = -1

\* C4: when a boundary label is absent from the sorted labels (smaller than
\* all, between two, larger than all, or the sequence is empty) first_index
\* and last_index return -1 without raising and get_non_iid_datasets completes.
C4_AbsentLabelNeverRaises ==
    /\ C4_SentinelReturned
    /\ ~(~iid_split /\ d_pc = "raised" /\ d_err = "IndexError")

\* labels the searches of two clients look for: the first label, and the last
\* label of client 0 with the first of client 1; data of ten classes has them
BoundaryLabels == {0, 4, 5}

\* the scenario of C5: get_data_loaders has returned, non-IID, no mix, two
\* clients, labels in 0..9 with the boundary labels in the non-validation
\* portion
TwoClientScenario ==
    /\ d_pc = "done"
    /\ ~iid_split
    /\ non_iid_mix[1] = 0
    /\ num_clients = 2
    /\ BoundaryLabels \subseteq LabelsAt(TrainPortion)

LowHalf == {i \in TrainPortion : At(train_target, i) <= 4}

HighHalf == {i \in TrainPortion : At(train_target, i) >= 5}

\* C5 as stated: in the returned list client 0 holds all samples of labels
\* 0..4 and client 1 all samples of labels 5..9.
C5_ClientZeroGetsLowLabels ==
    TwoClientScenario =>
        /\ IndexSet(client_datasets[1]) = LowHalf
        /\ IndexSet(client_datasets[2]) = HighHalf

\* C5 amended: one of the two returned shards holds all samples of labels
\* 0..4 and the other all samples of labels 5..9 (the list is shuffled, so
\* either client may hold either half); the shards are disjoint and
\* exhaustive over the non-validation portion.
C5_HalvesInSomeOrder ==
    TwoClientScenario =>
        /\ Len(client_datasets) = 2
        /\ \/ /\ IndexSet(client_datasets[1]) = LowHalf
              /\ IndexSet(client_datasets[2]) = HighHalf
           \/ /\ IndexSet(client_datasets[1]) = HighHalf
              /\ IndexSet(client_datasets[2]) = LowHalf
        /\ \A j \in 1..2 : NoDuplicates(client_datasets[j])
        /\ PairwiseDisjoint(client_datasets)
        /\ UnionOf(client_datasets) = TrainPortion

\* C5 witness: the scenario with all ten classes, client 0 holding the
\* labels 5..9
C5_Witness ==
    /\ TwoClientScenario
    /\ LabelsAt(TrainPortion) = 0..9
    /\ IndexSet(client_datasets[1]) = HighHalf
    /\ LabelsOf(client_datasets[1]) = 5..9

\* C6: with ten classes present and 10 mod k = 0, every client's shard holds
\* samples of exactly 10/k distinct labels and the label sets of different
\* clients are disjoint.
C6_LabelsPerClient ==
    ( /\ ~iid_split
      /\ non_iid_mix[1] = 0
      /\ d_pc \in {"partitioned", "shuffled", "done"}
      /\ 10 % num_clients = 0
      /\ LabelsAt(TrainPortion) = 0..9 ) =>
        /\ Len(client_datasets) = num_clients
        /\ \A j \in DOMAIN client_datasets :
             Cardinality(LabelsOf(client_datasets[j])) = 10 \div num_clients
        /\ \A i, j \in DOMAIN client_datasets :
             i # j => LabelsOf(client_datasets[i]) \cap LabelsOf(client_datasets[j]) = {}

\* C6 witness: ten clients after a validation split, one label each
C6_Witness ==
    /\ ~iid_split
    /\ d_pc = "partitioned"
    /\ num_clients = 10
    /\ ValIndices # {}
    /\ LabelsAt(TrainPortion) = 0..9
    /\ Len(client_datasets) = 10
    /\ \A j \in DOMAIN client_datasets : Cardinality(LabelsOf(client_datasets[j])) = 1

\* the IID split of train_dataset was attempted and has ended
IIDEnded ==
    /\ iid_split
    /\ \/ d_pc = "partitioned"
       \/ d_pc = "raised" /\ d_line = 47

\* C7: IID partitioning of n samples among k clients yields k shards of
\* floor(n/k) indices each for every n and k, dropping the remainder without
\* failing; the union has n - (n mod k) indices, each in exactly one shard.
C7_IIDDropsRemainder ==
    IIDEnded =>
        LET n == DsLen(train_dataset)
        IN  /\ d_pc = "partitioned"
            /\ Len(client_datasets) = num_clients
            /\ \A j \in DOMAIN client_datasets :
                 /\ Len(client_datasets[j].indices) = n \div num_clients
                 /\ NoDuplicates(client_datasets[j])
            /\ PairwiseDisjoint(client_datasets)
            /\ Cardinality(UnionOf(client_datasets)) = n - (n % num_clients)

\* a validation split was carved out and the mixed non-IID shards are built
MixedEnded ==
    /\ percentage_val[1] # 0
    /\ ~iid_split
    /\ non_iid_mix[1] # 0
    /\ d_pc \in {"partitioned", "shuffled", "done"}

\* C11: when a validation split is carved out first and mixed non-IID mode is
\* used, every index of every client shard, resolved to the original
\* collection, belongs to the non-validation training portion (none was held
\* out in the validation set), and the client shards are pairwise disjoint.
C11_MixedShardsAvoidValidation ==
    MixedEnded =>
        /\ \A j \in DOMAIN client_datasets :
             /\ IndexSet(client_datasets[j]) \subseteq TrainPortion
             /\ IndexSet(client_datasets[j]) \cap ValIndices = {}
        /\ PairwiseDisjoint(client_datasets)

====
